---- MODULE Spec2Model ----
(***************************************************************************)
(* Model of the KiCAD "Board Outline Generator" plugin                     *)
(* (src/Board Outline Generator/board_outline_generator.py).               *)
(*                                                                         *)
(* Lengths the user enters are Python floats.  A float is modelled as a    *)
(* record [k, v]: k = "num" with v the length in tenths of a millimetre,   *)
(* or k = "nan" / "inf" / "ninf" for the non-finite floats that float()    *)
(* also accepts.  The text of a form field is modelled by the float it     *)
(* parses to, or by Bad when float() raises ValueError.  Board geometry    *)
(* (width, height, radius, inset, hole positions) ranges over multiples    *)
(* of half a millimetre, which binary floating point represents exactly;   *)
(* the only inexact float results are then the sines and cosines, and      *)
(* these are modelled by what math.cos / math.sin return.                  *)
(* Host coordinates are integers in nanometres, as pcbnew stores them.     *)
(***************************************************************************)
EXTENDS Integers, Sequences, FiniteSets, TLC

VARIABLES
    width_ctrl,          \* text of the Width field
    height_ctrl,         \* text of the Height field
    radius_ctrl,         \* text of the Corner Radius field
    hole_diameter_ctrl,  \* text of the Hole Diameter field
    annular_ring_ctrl,   \* text of the Annular Ring field
    inset_ctrl,          \* text of the Corner Inset field
    hole_entries,        \* BoardOutlineDialog.hole_entries
    edits,               \* number of edits (typing, Remove) the user has made
    pc,                  \* position of BoardOutlinePlugin.Run
    modal_result,        \* what dlg.ShowModal() returned ("" before)
    params,              \* what get_parameters returned (None before)
    msg,                 \* text of the last wx.MessageBox shown ("" = none)
    board,               \* items of the host board, in the order added
    board0,              \* the board as pcbnew.GetBoard() returned it
    hole_i,              \* index of the next hole position Run will place
    refreshes,           \* number of pcbnew.Refresh() calls
    refreshed_at         \* Len(board) at the last pcbnew.Refresh() call

vars == <<width_ctrl, height_ctrl, radius_ctrl, hole_diameter_ctrl,
          annular_ring_ctrl, inset_ctrl, hole_entries, edits, pc, modal_result,
          params,
          msg, board, board0, hole_i, refreshes, refreshed_at>>

(***************************************************************************)
(* Floats                                                                  *)
(***************************************************************************)
Num(n) == [k |-> "num", v |-> n]
NaN == [k |-> "nan", v |-> 0]
PInf == [k |-> "inf", v |-> 0]
NInf == [k |-> "ninf", v |-> 0]
Bad == [k |-> "bad", v |-> 0]
None == [k |-> "none", v |-> 0]

IsFinite(a) == a.k = "num"

\* a + b on floats
FAdd(a, b) ==
    IF a.k = "nan" \/ b.k = "nan" THEN NaN
    ELSE IF a.k = "num" /\ b.k = "num" THEN Num(a.v + b.v)
    ELSE IF a.k = "num" THEN b
    ELSE IF b.k = "num" THEN a
    ELSE IF a.k = b.k THEN a
    ELSE NaN

FNeg(a) ==
    IF a.k = "num" THEN Num(0 - a.v)
    ELSE IF a.k = "inf" THEN NInf
    ELSE IF a.k = "ninf" THEN PInf
    ELSE a

\* a - b on floats
FSub(a, b) == FAdd(a, FNeg(b))

\* 2 * a on floats
FTwice(a) == IF a.k = "num" THEN Num(2 * a.v) ELSE a

\* a < b on floats: every comparison with nan is False
FLt(a, b) ==
    IF a.k = "nan" \/ b.k = "nan" THEN FALSE
    ELSE IF a.k = "num" /\ b.k = "num" THEN a.v < b.v
    ELSE IF a.k = b.k THEN FALSE
    ELSE a.k = "ninf" \/ b.k = "inf"

FLe(a, b) ==
    IF a.k = "nan" \/ b.k = "nan" THEN FALSE
    ELSE IF a.k = "num" /\ b.k = "num" THEN a.v <= b.v
    ELSE IF a.k = b.k THEN TRUE
    ELSE a.k = "ninf" \/ b.k = "inf"

FGt(a, b) == FLt(b, a)

\* Python's min(a, b): b when b < a, else a
FMin(a, b) == IF FLt(b, a) THEN b ELSE a

\* a > b / 2, computed without leaving the integers
FGtHalf(a, b) == FGt(FTwice(a), b)

(***************************************************************************)
(* mm_to_nm and the trigonometry of create_arc                             *)
(***************************************************************************)
\* nanometres in a tenth of a millimetre: int(mm * 1e6) of an exact value
NmPerTenth == 100000

\* mm_to_nm of a finite length given in tenths of a millimetre (the callers
\* test IsFinite first: int() raises on nan and on the infinities)
mm_to_nm(t) == t * NmPerTenth

BOARD_OFFSET_X == 250
BOARD_OFFSET_Y == 250

\* math.cos(math.radians(deg)) for deg a multiple of 45.  "unit" is exactly
\* +-1, "diag" is +-0.7071067811865476, "tiny" is the non-zero float that
\* the library returns where the real cosine is 0; q is its magnitude
\* times 2^53, times 10000.
cos_deg(deg) ==
    CASE deg = 0 -> [k |-> "unit", s |-> 1, q |-> 0]
      [] deg = 45 -> [k |-> "diag", s |-> 1, q |-> 0]
      [] deg = 90 -> [k |-> "tiny", s |-> 1, q |-> 5515]
      [] deg = 135 -> [k |-> "diag", s |-> -1, q |-> 0]
      [] deg = 180 -> [k |-> "unit", s |-> -1, q |-> 0]
      [] deg = 225 -> [k |-> "diag", s |-> -1, q |-> 0]
      [] deg = 270 -> [k |-> "tiny", s |-> -1, q |-> 16546]
      [] deg = 315 -> [k |-> "diag", s |-> 1, q |-> 0]
      [] deg = 360 -> [k |-> "unit", s |-> 1, q |-> 0]

\* math.sin(math.radians(deg)) for deg a multiple of 45
sin_deg(deg) ==
    CASE deg = 0 -> [k |-> "zero", s |-> 1, q |-> 0]
      [] deg = 45 -> [k |-> "diag", s |-> 1, q |-> 0]
      [] deg = 90 -> [k |-> "unit", s |-> 1, q |-> 0]
      [] deg = 135 -> [k |-> "diag", s |-> 1, q |-> 0]
      [] deg = 180 -> [k |-> "tiny", s |-> 1, q |-> 11031]
      [] deg = 225 -> [k |-> "diag", s |-> -1, q |-> 0]
      [] deg = 270 -> [k |-> "unit", s |-> -1, q |-> 0]
      [] deg = 315 -> [k |-> "diag", s |-> -1, q |-> 0]
      [] deg = 360 -> [k |-> "tiny", s |-> -1, q |-> 22061]

\* The largest 10 * 2^k (k >= 0) not above c: the power of two, in tenths of
\* a millimetre, that heads the binade of the float c (c is 1 mm or more).
RECURSIVE Pow2Below(_, _)
Pow2Below(c, p) == IF 2 * p > c THEN p ELSE Pow2Below(c, 2 * p)

\* Whether the float subtraction c - r*t, t a "tiny" value of magnitude q,
\* rounds to the float just below c instead of to c: r*t exceeds half the
\* gap between c and its predecessor.
RoundsBelow(c, r, q) ==
    LET p == Pow2Below(c, 10)
    IN  IF c = p THEN 2 * r * q > 10000 * p ELSE r * q > 10000 * p

\* floor of r * 0.7071067811865476 mm in nanometres, r in tenths of a mm
DiagFloor(r) == r * 70710 + (r * 678118) \div 1000000

\* mm_to_nm(c + sgn * r * t): one coordinate of a point of create_arc, for
\* centre coordinate c and radius r > 0 in tenths of a millimetre.  int()
\* truncates, so a float just below a whole number of nanometres loses one.
coord_nm(c, r, t, sgn) ==
    LET s == sgn * t.s
    IN  CASE t.k = "zero" -> mm_to_nm(c)
          [] t.k = "unit" -> mm_to_nm(c + s * r)
          [] t.k = "tiny" ->
                IF s < 0 /\ RoundsBelow(c, r, t.q)
                THEN mm_to_nm(c) - 1
                ELSE mm_to_nm(c)
          [] t.k = "diag" ->
                IF s > 0
                THEN mm_to_nm(c) + DiagFloor(r)
                ELSE mm_to_nm(c) - DiagFloor(r) - 1

\* The point of create_arc at angle deg: (cx + r*cos a, cy - r*sin a)
arc_point(cx, cy, r, deg) ==
    <<coord_nm(cx, r, cos_deg(deg), 1), coord_nm(cy, r, sin_deg(deg), -1)>>

(***************************************************************************)
(* create_board_outline                                                    *)
(***************************************************************************)
Segment(s, e) ==
    [shape |-> "segment", layer |-> "Edge.Cuts", start |-> s, end |-> e,
     width |-> mm_to_nm(1)]

Arc(s, m, e) ==
    [shape |-> "arc", layer |-> "Edge.Cuts", start |-> s, mid |-> m,
     end |-> e, width |-> mm_to_nm(1)]

ox == Num(BOARD_OFFSET_X)
oy == Num(BOARD_OFFSET_Y)

\* Faulty variant of rect_points: the closing point repeats the fourth
\* corner instead of returning to the first
rect_points_open(w, h) ==
    << <<ox, oy>>,
       <<FAdd(ox, w), oy>>,
       <<FAdd(ox, w), FAdd(oy, h)>>,
       <<ox, FAdd(oy, h)>>,
       <<ox, FAdd(oy, h)>> >>

\* points of the r == 0 branch, as floats in mm
rect_points(w, h) ==
    << <<ox, oy>>,
       <<FAdd(ox, w), oy>>,
       <<FAdd(ox, w), FAdd(oy, h)>>,
       <<ox, FAdd(oy, h)>>,
       <<ox, oy>> >>

\* the r == 0 branch's pairs (points[i], points[i+1])
rect_lines(w, h) ==
    LET pts == rect_points(w, h)
    IN  [i \in 1..(Len(pts) - 1) |-> <<pts[i], pts[i + 1]>>]

\* "Lines connecting the arcs", as floats in mm
lines(w, h, r) ==
    << << <<FAdd(ox, r), oy>>, <<FSub(FAdd(ox, w), r), oy>> >>,
       << <<FAdd(ox, w), FAdd(oy, r)>>, <<FAdd(ox, w), FSub(FAdd(oy, h), r)>> >>,
       << <<FSub(FAdd(ox, w), r), FAdd(oy, h)>>, <<FAdd(ox, r), FAdd(oy, h)>> >>,
       << <<ox, FSub(FAdd(oy, h), r)>>, <<ox, FAdd(oy, r)>> >> >>

\* The loop that turns each (start, end) pair into a segment and adds it.
\* mm_to_nm raises on a non-finite coordinate before board.Add is reached:
\* the segments before it stay on the board and the exception leaves
\* create_board_outline.
RECURSIVE add_lines(_, _)
add_lines(b, ls) ==
    IF ls = <<>> THEN [board |-> b, raised |-> FALSE]
    ELSE LET s == Head(ls)[1]
             e == Head(ls)[2]
         IN  IF IsFinite(s[1]) /\ IsFinite(s[2]) /\ IsFinite(e[1]) /\ IsFinite(e[2])
             THEN add_lines(
                      Append(b, Segment(<<mm_to_nm(s[1].v), mm_to_nm(s[2].v)>>,
                                        <<mm_to_nm(e[1].v), mm_to_nm(e[2].v)>>)),
                      Tail(ls))
             ELSE [board |-> b, raised |-> TRUE]

\* "Corner centers", in tenths of a millimetre (w, h, r finite here)
corners(w, h, r) ==
    << <<BOARD_OFFSET_X + r, BOARD_OFFSET_Y + r>>,
       <<BOARD_OFFSET_X + w - r, BOARD_OFFSET_Y + r>>,
       <<BOARD_OFFSET_X + w - r, BOARD_OFFSET_Y + h - r>>,
       <<BOARD_OFFSET_X + r, BOARD_OFFSET_Y + h - r>> >>

\* angle of create_arc's mid_pt, in degrees
mid_angle(start_angle_deg, end_angle_deg) ==
    (start_angle_deg + end_angle_deg) \div 2

\* create_arc(center, start_angle_deg, end_angle_deg): the arc it adds
create_arc(center, r, start_angle_deg, end_angle_deg) ==
    Arc(arc_point(center[1], center[2], r, start_angle_deg),
        arc_point(center[1], center[2], r,
                  mid_angle(start_angle_deg, end_angle_deg)),
        arc_point(center[1], center[2], r, end_angle_deg))

\* Faulty variant of corner_arcs: the sweeps of the two right-hand corners
\* are exchanged
corner_arcs_swapped(w, h, r) ==
    LET c == corners(w, h, r)
    IN  << create_arc(c[1], r, 90, 180),
           create_arc(c[2], r, 270, 360),
           create_arc(c[3], r, 0, 90),
           create_arc(c[4], r, 180, 270) >>

\* the four create_arc calls, in the order made
corner_arcs(w, h, r) ==
    LET c == corners(w, h, r)
    IN  << create_arc(c[1], r, 90, 180),
           create_arc(c[2], r, 0, 90),
           create_arc(c[3], r, 270, 360),
           create_arc(c[4], r, 180, 270) >>

\* create_board_outline(board, width, height, corner_radius): the board
\* afterwards, and whether it left by an exception.  When the four lines
\* are added, r and w (line 1) and h (line 2) are finite, so the arcs'
\* coordinates are finite too.
create_board_outline(b, w, h, r) ==
    IF r = Num(0) THEN add_lines(b, rect_lines(w, h))
    ELSE LET res == add_lines(b, lines(w, h, r))
         IN  IF res.raised THEN res
             ELSE [board |-> res.board \o corner_arcs(w.v, h.v, r.v),
                   raised |-> FALSE]

(***************************************************************************)
(* create_mounting_hole                                                    *)
(***************************************************************************)
\* len([f for f in board.GetFootprints() if f.GetReference().startswith('H')])
h_footprints(b) ==
    Cardinality({i \in 1..Len(b) : b[i].shape = "footprint" /\ b[i].ref.prefix = "H"})

\* pad_diameter = hole_diameter + (2 * annular_ring); no later line reads it
pad_diameter(hole_diameter, annular_ring) == hole_diameter + (2 * annular_ring)

\* the PAD the function builds: SetDrillSize, SetSize, SetPosition and
\* SetLocalSolderMaskMargin, in nanometres
mounting_pad(hole_diameter, annular_ring) ==
    [number |-> "1", shape |-> "circle", attrib |-> "NPTH",
     drill |-> <<mm_to_nm(hole_diameter), mm_to_nm(hole_diameter)>>,
     size |-> <<mm_to_nm(hole_diameter), mm_to_nm(hole_diameter)>>,
     pos |-> <<0, 0>>,
     mask_margin |-> mm_to_nm(annular_ring)]

\* Faulty variant of mounting_footprint: the board offset is not applied
mounting_footprint_no_offset(b, x, y, hole_diameter, annular_ring) ==
    [shape |-> "footprint",
     ref |-> [prefix |-> "H", n |-> h_footprints(b) + 1],
     value |-> "MountingHole",
     pads |-> <<mounting_pad(hole_diameter, annular_ring)>>,
     pos |-> <<mm_to_nm(x), mm_to_nm(y)>>]

\* the FOOTPRINT the function adds, for finite arguments in tenths of a mm
mounting_footprint(b, x, y, hole_diameter, annular_ring) ==
    [shape |-> "footprint",
     ref |-> [prefix |-> "H", n |-> h_footprints(b) + 1],
     value |-> "MountingHole",
     pads |-> <<mounting_pad(hole_diameter, annular_ring)>>,
     pos |-> <<mm_to_nm(BOARD_OFFSET_X + x), mm_to_nm(BOARD_OFFSET_Y + y)>>]

\* create_mounting_hole(board, x, y, hole_diameter, annular_ring): the board
\* afterwards, and whether it left by an exception.  Every mm_to_nm call
\* comes before board.Add, so a non-finite argument adds nothing.
create_mounting_hole(b, x, y, hole_diameter, annular_ring) ==
    IF IsFinite(x) /\ IsFinite(y) /\ IsFinite(hole_diameter) /\ IsFinite(annular_ring)
    THEN [board |-> Append(b, mounting_footprint(b, x.v, y.v, hole_diameter.v,
                                                  annular_ring.v)),
          raised |-> FALSE]
    ELSE [board |-> b, raised |-> TRUE]

(***************************************************************************)
(* MountingHoleEntry and BoardOutlineDialog                                *)
(***************************************************************************)
DefaultWidth == 1000
DefaultHeight == 800
DefaultRadius == 30
DefaultHoleDiameter == 34
DefaultAnnularRing == 10
DefaultInset == 50
DefaultHoleXY == 35

NoMsg == [title |-> "", text |-> "", hole |-> 0]
ErrorBox(text, hole) == [title |-> "Invalid Input", text |-> text, hole |-> hole]

\* MountingHoleEntry.__init__: the label is written once, from the index
MountingHoleEntry(index, x, y) ==
    [index |-> index, label |-> index + 1, x |-> x, y |-> y]

\* MountingHoleEntry.get_position: None when either text does not parse
get_position(entry) ==
    IF entry.x = Bad \/ entry.y = Bad THEN None
    ELSE [k |-> "pos", x |-> entry.x, y |-> entry.y]

\* BoardOutlineDialog._add_hole_entry
add_hole_entry(entries, x, y) ==
    Append(entries, MountingHoleEntry(Len(entries), x, y))

\* the list after list.remove(entry), entry being the one at position i
without(entries, i) ==
    [j \in 1..(Len(entries) - 1) |-> IF j < i THEN entries[j] ELSE entries[j + 1]]

\* "Renumber remaining entries"
renumber(entries) ==
    [j \in 1..Len(entries) |-> [entries[j] EXCEPT !.index = j - 1]]

\* Faulty variant of remove_hole_entry: the remaining entries keep their
\* old indices
remove_without_renumber(entries, i) == without(entries, i)

\* BoardOutlineDialog._remove_hole_entry
remove_hole_entry(entries, i) == renumber(without(entries, i))

\* the corners list of _on_add_corners
corner_positions(width, height, inset) ==
    << <<inset, inset>>,
       <<FSub(width, inset), inset>>,
       <<inset, FSub(height, inset)>>,
       <<FSub(width, inset), FSub(height, inset)>> >>

RECURSIVE add_all(_, _)
add_all(entries, positions) ==
    IF positions = <<>> THEN entries
    ELSE add_all(add_hole_entry(entries, Head(positions)[1], Head(positions)[2]),
                 Tail(positions))

\* the first entry, in list order, whose position does not parse (0: none)
first_bad_entry(entries) ==
    IF \E i \in 1..Len(entries) : get_position(entries[i]) = None
    THEN CHOOSE i \in 1..Len(entries) :
             /\ get_position(entries[i]) = None
             /\ \A j \in 1..(i - 1) : get_position(entries[j]) # None
    ELSE 0

\* BoardOutlineDialog.get_parameters: the dict it returns, or None, and the
\* message box it shows
get_parameters(w, h, r, hd, ar, entries) ==
    LET bad == first_bad_entry(entries)
        fail(text, hole) == [params |-> None, msg |-> ErrorBox(text, hole)]
    IN  IF Bad \in {w, h, r, hd, ar}
        THEN fail("could not convert string to float", 0)
        ELSE IF bad # 0
        THEN fail("Invalid position for hole", entries[bad].index + 1)
        ELSE IF FLe(w, Num(0)) \/ FLe(h, Num(0))
        THEN fail("Board dimensions must be positive", 0)
        ELSE IF FLt(r, Num(0))
        THEN fail("Corner radius cannot be negative", 0)
        ELSE IF FGtHalf(r, FMin(w, h))
        THEN fail("Corner radius too large for board size", 0)
        ELSE IF FLe(hd, Num(0))
        THEN fail("Hole diameter must be positive", 0)
        ELSE [params |-> [width |-> w, height |-> h, corner_radius |-> r,
                          hole_diameter |-> hd, annular_ring |-> ar,
                          hole_positions |->
                              [i \in 1..Len(entries) |-> get_position(entries[i])]],
              msg |-> NoMsg]

(***************************************************************************)
(* Bounds and the texts the user types                                     *)
(***************************************************************************)
\* most entries the hole list holds
MaxHoles == 4
\* most edits (typing in a field, removing an entry) the user makes before
\* closing the dialog; adding holes and Clear All are not counted
MaxEdits == 2
\* largest width and height, in whole millimetres, of the outline inputs
MaxDim == 44

WidthTexts == {Num(0), Num(400), NaN, Bad}
HeightTexts == {Num(-10), PInf, Bad}
RadiusTexts == {Num(0), Num(-5), Num(200), Num(400), Num(405), Bad}
HoleDiameterTexts == {Num(0), PInf, Bad}
AnnularRingTexts == {Num(-10), NaN, Bad}
InsetTexts == {Num(100), Bad}
HoleTexts == {NaN, Bad}

\* a footprint the board may hold before the plugin runs
ExistingFootprint ==
    [shape |-> "footprint", ref |-> [prefix |-> "H", n |-> 1],
     value |-> "MountingHole", pads |-> <<>>, pos |-> <<0, 0>>]

(***************************************************************************)
(* The dialog's handlers, run while ShowModal is open                      *)
(***************************************************************************)
form == <<width_ctrl, height_ctrl, radius_ctrl, hole_diameter_ctrl,
          annular_ring_ctrl, inset_ctrl>>
run_state == <<pc, modal_result, params, board, board0, hole_i, refreshes,
               refreshed_at>>

Editing == pc = "modal" /\ edits < MaxEdits

TypeWidth ==
    /\ Editing
    /\ \E v \in WidthTexts : width_ctrl' = v
    /\ edits' = edits + 1
    /\ UNCHANGED <<height_ctrl, radius_ctrl, hole_diameter_ctrl, annular_ring_ctrl,
                   inset_ctrl, hole_entries, msg, run_state>>

TypeHeight ==
    /\ Editing
    /\ \E v \in HeightTexts : height_ctrl' = v
    /\ edits' = edits + 1
    /\ UNCHANGED <<width_ctrl, radius_ctrl, hole_diameter_ctrl, annular_ring_ctrl,
                   inset_ctrl, hole_entries, msg, run_state>>

TypeRadius ==
    /\ Editing
    /\ \E v \in RadiusTexts : radius_ctrl' = v
    /\ edits' = edits + 1
    /\ UNCHANGED <<width_ctrl, height_ctrl, hole_diameter_ctrl, annular_ring_ctrl,
                   inset_ctrl, hole_entries, msg, run_state>>

TypeHoleDiameter ==
    /\ Editing
    /\ \E v \in HoleDiameterTexts : hole_diameter_ctrl' = v
    /\ edits' = edits + 1
    /\ UNCHANGED <<width_ctrl, height_ctrl, radius_ctrl, annular_ring_ctrl,
                   inset_ctrl, hole_entries, msg, run_state>>

TypeAnnularRing ==
    /\ Editing
    /\ \E v \in AnnularRingTexts : annular_ring_ctrl' = v
    /\ edits' = edits + 1
    /\ UNCHANGED <<width_ctrl, height_ctrl, radius_ctrl, hole_diameter_ctrl,
                   inset_ctrl, hole_entries, msg, run_state>>

TypeInset ==
    /\ Editing
    /\ \E v \in InsetTexts : inset_ctrl' = v
    /\ edits' = edits + 1
    /\ UNCHANGED <<width_ctrl, height_ctrl, radius_ctrl, hole_diameter_ctrl,
                   annular_ring_ctrl, hole_entries, msg, run_state>>

TypeHoleX ==
    /\ Editing
    /\ \E i \in 1..Len(hole_entries), v \in HoleTexts :
           hole_entries' = [hole_entries EXCEPT ![i].x = v]
    /\ edits' = edits + 1
    /\ UNCHANGED <<form, msg, run_state>>

TypeHoleY ==
    /\ Editing
    /\ \E i \in 1..Len(hole_entries), v \in HoleTexts :
           hole_entries' = [hole_entries EXCEPT ![i].y = v]
    /\ edits' = edits + 1
    /\ UNCHANGED <<form, msg, run_state>>

\* BoardOutlineDialog._on_add_hole
OnAddHole ==
    /\ pc = "modal"
    /\ Len(hole_entries) < MaxHoles
    /\ hole_entries' = add_hole_entry(hole_entries, Num(DefaultHoleXY), Num(DefaultHoleXY))
    /\ UNCHANGED <<form, edits, msg, run_state>>

\* MountingHoleEntry._on_remove, which calls _remove_hole_entry(self)
OnRemove ==
    /\ Editing
    /\ \E i \in 1..Len(hole_entries) :
           hole_entries' = remove_hole_entry(hole_entries, i)
    /\ edits' = edits + 1
    /\ UNCHANGED <<form, msg, run_state>>

\* BoardOutlineDialog._on_add_corners
OnAddCorners ==
    /\ pc = "modal"
    /\ IF Bad \in {width_ctrl, height_ctrl, inset_ctrl}
       THEN /\ msg' = ErrorBox("Please enter valid board dimensions first.", 0)
            /\ UNCHANGED hole_entries
       ELSE /\ Len(hole_entries) + 4 <= MaxHoles
            /\ hole_entries' = add_all(hole_entries,
                                       corner_positions(width_ctrl, height_ctrl, inset_ctrl))
            /\ UNCHANGED msg
    /\ UNCHANGED <<form, edits, run_state>>

\* BoardOutlineDialog._on_clear_holes
OnClearHoles ==
    /\ pc = "modal"
    /\ hole_entries' = <<>>
    /\ UNCHANGED <<form, edits, msg, run_state>>

(***************************************************************************)
(* BoardOutlinePlugin.Run                                                  *)
(***************************************************************************)
\* Faulty variant of accepted: the result of ShowModal is not looked at
accepted_any(result) == TRUE

\* dlg.ShowModal() == wx.ID_OK
accepted(result) == result = "ID_OK"

\* if params:
proceeds(p) == p # None

\* ShowModal returns result; Run calls get_parameters when it was accepted,
\* and destroys the dialog when there is nothing to create
after_modal(result) ==
    LET got == IF accepted(result)
               THEN get_parameters(width_ctrl, height_ctrl, radius_ctrl,
                                   hole_diameter_ctrl, annular_ring_ctrl, hole_entries)
               ELSE [params |-> None, msg |-> msg]
    IN  /\ pc = "modal"
        /\ modal_result' = result
        /\ params' = got.params
        /\ msg' = got.msg
        /\ pc' = IF accepted(result) /\ proceeds(got.params) THEN "outline" ELSE "done"
        /\ UNCHANGED <<form, hole_entries, edits, board, board0, hole_i, refreshes,
                       refreshed_at>>

\* the user presses Generate
OnGenerate == after_modal("ID_OK")

\* the user presses Cancel or closes the dialog
OnCancel == after_modal("ID_CANCEL")

\* the call of create_board_outline
CreateOutline ==
    /\ pc = "outline"
    /\ LET res == create_board_outline(board, params.width, params.height,
                                       params.corner_radius)
       IN  /\ board' = res.board
           /\ pc' = IF res.raised THEN "raised" ELSE "holes"
    /\ hole_i' = 1
    /\ UNCHANGED <<form, hole_entries, edits, modal_result, params, msg, board0,
                   refreshes, refreshed_at>>

\* one turn of "for x, y in params['hole_positions']"
CreateHole ==
    /\ pc = "holes"
    /\ hole_i <= Len(params.hole_positions)
    /\ LET pos == params.hole_positions[hole_i]
           res == create_mounting_hole(board, pos.x, pos.y, params.hole_diameter,
                                       params.annular_ring)
       IN  /\ board' = res.board
           /\ pc' = IF res.raised THEN "raised" ELSE "holes"
    /\ hole_i' = hole_i + 1
    /\ UNCHANGED <<form, hole_entries, edits, modal_result, params, msg, board0,
                   refreshes, refreshed_at>>

\* pcbnew.Refresh(), the closing message box and dlg.Destroy()
Refresh ==
    /\ pc = "holes"
    /\ hole_i > Len(params.hole_positions)
    /\ refreshes' = refreshes + 1
    /\ refreshed_at' = Len(board)
    /\ msg' = [title |-> "Board Outline Generator", text |-> "Created board outline",
               hole |-> Len(params.hole_positions)]
    /\ pc' = "done"
    /\ UNCHANGED <<form, hole_entries, edits, modal_result, params, board, board0,
                   hole_i>>

\* Run has fetched the board, built the dialog and entered ShowModal
Init ==
    /\ width_ctrl = Num(DefaultWidth)
    /\ height_ctrl = Num(DefaultHeight)
    /\ radius_ctrl = Num(DefaultRadius)
    /\ hole_diameter_ctrl = Num(DefaultHoleDiameter)
    /\ annular_ring_ctrl = Num(DefaultAnnularRing)
    /\ inset_ctrl = Num(DefaultInset)
    /\ hole_entries = <<>>
    /\ edits = 0
    /\ pc = "modal"
    /\ modal_result = ""
    /\ params = None
    /\ msg = NoMsg
    /\ board0 \in {<<>>, <<ExistingFootprint>>}
    /\ board = board0
    /\ hole_i = 1
    /\ refreshes = 0
    /\ refreshed_at = 0

Next ==
    \/ TypeWidth \/ TypeHeight \/ TypeRadius \/ TypeHoleDiameter
    \/ TypeAnnularRing \/ TypeInset \/ TypeHoleX \/ TypeHoleY
    \/ OnAddHole \/ OnRemove \/ OnAddCorners \/ OnClearHoles
    \/ OnGenerate \/ OnCancel
    \/ CreateOutline \/ CreateHole \/ Refresh

Spec == Init /\ [][Next]_vars

(***************************************************************************)
(* create_board_outline on its own: every width and height of whole        *)
(* millimetres up to MaxDim and every radius of half millimetres that      *)
(* get_parameters lets through                                             *)
(***************************************************************************)
OutlineInputs ==
    {<<w, h, r>> \in {10 * k : k \in 1..MaxDim} \X {10 * k : k \in 1..MaxDim}
                     \X {5 * j : j \in 0..MaxDim} :
        2 * r <= w /\ 2 * r <= h}

InitOutline ==
    /\ width_ctrl = Num(DefaultWidth)
    /\ height_ctrl = Num(DefaultHeight)
    /\ radius_ctrl = Num(DefaultRadius)
    /\ hole_diameter_ctrl = Num(DefaultHoleDiameter)
    /\ annular_ring_ctrl = Num(DefaultAnnularRing)
    /\ inset_ctrl = Num(DefaultInset)
    /\ hole_entries = <<>>
    /\ edits = 0
    /\ pc = "outline"
    /\ modal_result = "ID_OK"
    /\ \E in \in OutlineInputs :
           params = [width |-> Num(in[1]), height |-> Num(in[2]),
                     corner_radius |-> Num(in[3]),
                     hole_diameter |-> Num(DefaultHoleDiameter),
                     annular_ring |-> Num(DefaultAnnularRing),
                     hole_positions |-> <<>>]
    /\ msg = NoMsg
    /\ board0 = <<>>
    /\ board = board0
    /\ hole_i = 1
    /\ refreshes = 0
    /\ refreshed_at = 0

NextOutline == CreateOutline

SpecOutline == InitOutline /\ [][NextOutline]_vars

(***************************************************************************)
(* Observations on a state                                                 *)
(***************************************************************************)
\* the items Run has added to the board
added == SubSeq(board, Len(board0) + 1, Len(board))
IsSegment(it) == it.shape = "segment"
IsArc(it) == it.shape = "arc"
IsFootprint(it) == it.shape = "footprint"
segments == SelectSeq(added, IsSegment)
arcs == SelectSeq(added, IsArc)
footprints == SelectSeq(added, IsFootprint)

\* create_board_outline has returned for finite w, h and a radius r
OutlineDone == pc = "holes" /\ IsFinite(params.corner_radius)
pw == params.width.v
ph == params.height.v
pr == params.corner_radius.v

Abs(n) == IF n < 0 THEN 0 - n ELSE n
nm(t) == t * 100000

\* C1's centres, top-left, top-right, bottom-right, bottom-left, in tenths
\* of a millimetre, and its sweeps in degrees
ClaimCentres(w, h, r) ==
    << <<250 + r, 250 + r>>, <<250 + w - r, 250 + r>>,
       <<250 + w - r, 250 + h - r>>, <<250 + r, 250 + h - r>> >>
ClaimSweeps == << <<90, 180>>, <<0, 90>>, <<270, 360>>, <<180, 270>> >>

\* the direction (cos a, -sin a) of an axis angle, Y pointing down
AxisDir(a) ==
    CASE a = 0 -> <<1, 0>> [] a = 90 -> <<0, -1>> [] a = 180 -> <<-1, 0>>
      [] a = 270 -> <<0, 1>> [] a = 360 -> <<1, 0>>

\* p is the point at axis angle a of the circle (c, r), to the nanometre
AtAxis(p, c, r, a) ==
    /\ Abs(p[1] - nm(c[1] + r * AxisDir(a)[1])) <= 1
    /\ Abs(p[2] - nm(c[2] + r * AxisDir(a)[2])) <= 1

\* p is at distance r from c, to the micrometre (squares of micrometres
\* stay within TLC's integers)
OnCircle(p, c, r) ==
    LET dx == (p[1] - nm(c[1])) \div 1000
        dy == (p[2] - nm(c[2])) \div 1000
        ru == r * 100
    IN  Abs(dx * dx + dy * dy - ru * ru) <= 4 * ru + 4

\* p lies half way round the quarter circle from angle s to angle e: on the
\* diagonal of the quadrant the two axis directions span
AtDiagonal(p, c, s, e) ==
    LET dx == p[1] - nm(c[1])
        dy == p[2] - nm(c[2])
        qx == AxisDir(s)[1] + AxisDir(e)[1]
        qy == AxisDir(s)[2] + AxisDir(e)[2]
    IN  /\ dx * qx > 0
        /\ dy * qy > 0
        /\ Abs(Abs(dx) - Abs(dy)) <= 1

\* C1: for 0 < r <= min(w,h)/2 create_board_outline adds exactly four arcs of
\* radius r, centred at (ox+r, oy+r), (ox+w-r, oy+r), (ox+w-r, oy+h-r),
\* (ox+r, oy+h-r), sweeping 90->180, 0->90, 270->360, 180->270; each arc is
\* its three points at the start angle, the angular midpoint and the end
\* angle, the point at angle a being (cx + r*cos a, cy - r*sin a) (int()
\* truncates each coordinate to whole nanometres).
C1_FourCornerArcs ==
    (OutlineDone /\ pr > 0) =>
        /\ Len(arcs) = 4
        /\ \A i \in 1..4 :
               LET c == ClaimCentres(pw, ph, pr)[i]
                   s == ClaimSweeps[i][1]
                   e == ClaimSweeps[i][2]
                   a == arcs[i]
               IN  /\ a.start = arc_point(c[1], c[2], pr, s)
                   /\ a.mid = arc_point(c[1], c[2], pr, (s + e) \div 2)
                   /\ a.end = arc_point(c[1], c[2], pr, e)
                   /\ AtAxis(a.start, c, pr, s)
                   /\ AtAxis(a.end, c, pr, e)
                   /\ AtDiagonal(a.mid, c, s, e)
                   /\ OnCircle(a.start, c, pr)
                   /\ OnCircle(a.mid, c, pr)
                   /\ OnCircle(a.end, c, pr)

\* a 20 mm radius on a 44 mm x 40 mm board: four segments and four arcs
C1_Witness ==
    /\ OutlineDone
    /\ pr = 200 /\ pw = 440 /\ ph = 400
    /\ Len(arcs) = 4 /\ Len(added) = 8

\* C2: for r = 0 create_board_outline adds exactly four segments and no arc,
\* running (ox,oy)->(ox+w,oy)->(ox+w,oy+h)->(ox,oy+h)->(ox,oy): each starts
\* where the one before ends, the last ends where the first starts.
C2_PlainRectangle ==
    (OutlineDone /\ pr = 0) =>
        LET p == << <<nm(250), nm(250)>>, <<nm(250 + pw), nm(250)>>,
                    <<nm(250 + pw), nm(250 + ph)>>, <<nm(250), nm(250 + ph)>> >>
        IN  /\ Len(added) = 4
            /\ Len(arcs) = 0
            /\ \A i \in 1..4 :
                   /\ IsSegment(added[i])
                   /\ added[i].start = p[i]
                   /\ added[i].end = p[(i % 4) + 1]
                   /\ added[i].end = added[(i % 4) + 1].start

\* a 30 mm x 20 mm rectangle
C2_Witness ==
    /\ OutlineDone
    /\ pr = 0 /\ pw = 300 /\ ph = 200
    /\ Len(added) = 4

\* C3: for 0 < r <= min(w,h)/2 each straight edge starts at the start point
\* of one corner's arc and ends at the end point of the next corner's arc
\* (top: top-left at 90 to top-right at 90; right: top-right at 0 to
\* bottom-right at 360; bottom: bottom-right at 270 to bottom-left at 270;
\* left: bottom-left at 180 to top-left at 180): one closed loop, no gap.
C3_EdgesMeetArcs ==
    (OutlineDone /\ pr > 0) =>
        /\ Len(segments) = 4 /\ Len(arcs) = 4
        /\ segments[1].start = arcs[1].start /\ segments[1].end = arcs[2].end
        /\ segments[2].start = arcs[2].start /\ segments[2].end = arcs[3].end
        /\ segments[3].start = arcs[3].start /\ segments[3].end = arcs[4].end
        /\ segments[4].start = arcs[4].start /\ segments[4].end = arcs[1].end

(***************************************************************************)
(* The form as the claims read it                                          *)
(***************************************************************************)
\* get_parameters has run: the user pressed Generate
Validated == pc # "modal" /\ modal_result = "ID_OK"

\* every form field and every hole position parses as a float
AllParse ==
    /\ Bad \notin {width_ctrl, height_ctrl, radius_ctrl, hole_diameter_ctrl,
                   annular_ring_ctrl}
    /\ \A i \in 1..Len(hole_entries) :
           hole_entries[i].x # Bad /\ hole_entries[i].y # Bad

\* a is a number above 0 (nan is above nothing)
Positive(a) == a.k = "inf" \/ (a.k = "num" /\ a.v > 0)

\* 0 <= r <= m / 2
RadiusInRange(r, m) ==
    \/ r.k = "num" /\ r.v >= 0 /\ (m.k = "inf" \/ (m.k = "num" /\ 2 * r.v <= m.v))
    \/ r.k = "inf" /\ m.k = "inf"

\* the smaller of two numbers that are both above 0
Smaller(a, b) ==
    IF a.k = "inf" THEN b
    ELSE IF b.k = "inf" THEN a
    ELSE IF a.v <= b.v THEN a ELSE b

\* width > 0, height > 0, 0 <= corner_radius <= min(width, height)/2 and
\* hole_diameter > 0
InRange ==
    /\ Positive(width_ctrl)
    /\ Positive(height_ctrl)
    /\ RadiusInRange(radius_ctrl, Smaller(width_ctrl, height_ctrl))
    /\ Positive(hole_diameter_ctrl)

\* C4: get_parameters returns a parameter set only when every form field and
\* every hole position parses as a number and width > 0, height > 0,
\* 0 <= corner_radius <= min(width, height)/2 and hole_diameter > 0; in
\* every other case it reports an error and returns None.
C4_ReturnsOnlyValid ==
    Validated =>
        /\ (params # None) <=> (AllParse /\ InRange)
        /\ (params = None) => msg.title = "Invalid Input"

\* C5: the range validation covers the annular ring: with a negative
\* annular ring get_parameters returns None and no geometry is emitted.
C5_NegativeRingRejected ==
    (Validated /\ annular_ring_ctrl.k = "num" /\ annular_ring_ctrl.v < 0) =>
        (params = None /\ board = board0)

\* Run has ended, by its last line or by an exception
Ended == pc \in {"done", "raised"}

\* C6: in every execution of Run no item is added before get_parameters has
\* returned a parameter set; all outline shapes are added before the first
\* mounting-hole footprint; and, once items have been added, pcbnew.Refresh
\* is called exactly once, after the last of them.
C6_ValidateEmitRefresh ==
    /\ (board # board0) => (Validated /\ params # None)
    /\ \A i, j \in 1..Len(added) :
           (IsFootprint(added[i]) /\ ~IsFootprint(added[j])) => j < i
    /\ refreshes <= 1
    /\ (refreshes = 1) => (refreshed_at = Len(board))
    /\ (Ended /\ board # board0) => (refreshes = 1)

\* C7: if the dialog is cancelled, or it is confirmed and get_parameters
\* returns None, Run leaves the board as it was and does not call
\* pcbnew.Refresh.
C7_NothingWithoutParams ==
    (pc # "modal" /\ (modal_result = "ID_CANCEL" \/ params = None)) =>
        (board = board0 /\ refreshes = 0 /\ pc = "done")

\* Generate pressed on a board that holds a footprint, with a bad field
C7_Witness ==
    /\ pc = "done"
    /\ modal_result = "ID_OK"
    /\ params = None
    /\ msg.title = "Invalid Input"
    /\ board0 # <<>>
    /\ Len(hole_entries) > 0

\* C8: on a successful Run exactly one mounting-hole footprint is created for
\* each entry of the hole list, in the order of the entries, the one for
\* position (x, y) at (BOARD_OFFSET_X + x, BOARD_OFFSET_Y + y) mm.
C8_OneFootprintPerEntry ==
    (pc = "done" /\ refreshes = 1) =>
        /\ Len(footprints) = Len(hole_entries)
        /\ \A i \in 1..Len(hole_entries) :
               /\ IsFinite(hole_entries[i].x) /\ IsFinite(hole_entries[i].y)
               /\ footprints[i].pos = <<nm(250 + hole_entries[i].x.v),
                                        nm(250 + hole_entries[i].y.v)>>

\* the four corner holes of the default board, placed in list order
C8_Witness ==
    /\ pc = "done" /\ refreshes = 1
    /\ Len(hole_entries) = 4
    /\ Len(footprints) = 4
    /\ footprints[2].pos = <<nm(250 + 950), nm(250 + 50)>>
    /\ footprints[3].pos = <<nm(250 + 50), nm(250 + 750)>>

\* the entry at list position i has index i, counted from 0
IndexIsPosition ==
    \A i \in 1..Len(hole_entries) : hole_entries[i].index = i - 1

\* the same entry, whatever its index and its texts
SameEntry(a, b) == a.label = b.label
SameEntryAs(a, b) == a.label = b.label /\ a.x = b.x /\ a.y = b.y

\* one step changes the list in one of the ways the four operations allow:
\* entries are added at the end, one entry is removed and the others keep
\* their order, the list is emptied, or the entries stay (a text is typed)
HoleListStep ==
    \/ /\ Len(hole_entries') > Len(hole_entries)
       /\ SubSeq(hole_entries', 1, Len(hole_entries)) = hole_entries
    \/ /\ Len(hole_entries') = Len(hole_entries) - 1
       /\ \E i \in 1..Len(hole_entries) :
              \A j \in 1..Len(hole_entries') :
                  SameEntryAs(hole_entries'[j],
                              IF j < i THEN hole_entries[j] ELSE hole_entries[j + 1])
    \/ hole_entries' = <<>>
    \/ /\ Len(hole_entries') = Len(hole_entries)
       /\ \A j \in 1..Len(hole_entries) :
              /\ SameEntry(hole_entries'[j], hole_entries[j])
              /\ hole_entries'[j].index = hole_entries[j].index

\* C9: after any sequence of Add Hole, Add 4 Corner Holes, Remove and Clear
\* All, hole_entries holds exactly the entries added and not yet removed or
\* cleared, in the order added, and the entry at position i has index i.
C9_EntriesInOrderIndexed == [](IndexIsPosition) /\ [][HoleListStep]_vars

\* two holes were added, the first was removed, another was added
C9_Witness ==
    /\ Len(hole_entries) = 2
    /\ hole_entries[1].label = 2 /\ hole_entries[1].index = 0
    /\ hole_entries[2].label = 2 /\ hole_entries[2].index = 1

\* C10: create_mounting_hole creates one circular pad whose drill diameter is
\* hole_diameter and whose pad diameter is hole_diameter + 2*annular_ring.
C10_PadDiameter ==
    \A i \in 1..Len(footprints) :
        LET f == footprints[i]
        IN  /\ Len(f.pads) = 1
            /\ f.pads[1].shape = "circle"
            /\ f.pads[1].drill = <<nm(params.hole_diameter.v), nm(params.hole_diameter.v)>>
            /\ f.pads[1].size =
                   <<nm(params.hole_diameter.v + 2 * params.annular_ring.v),
                     nm(params.hole_diameter.v + 2 * params.annular_ring.v)>>

\* the number k shown on every entry's "Hole k:" label is its index + 1
LabelIsIndexPlusOne ==
    \A i \in 1..Len(hole_entries) :
        hole_entries[i].label = hole_entries[i].index + 1

\* get_parameters has shown "Invalid position for hole k"
HoleMessageShown ==
    Validated /\ msg.title = "Invalid Input" /\ msg.text = "Invalid position for hole"

\* the entry the message is about: the first whose position does not parse
\* is the one labelled "Hole k", k being the number in the message
MessageNamesLabel ==
    HoleMessageShown =>
        /\ first_bad_entry(hole_entries) # 0
        /\ hole_entries[first_bad_entry(hole_entries)].label = msg.hole

\* C11: after any sequence of Add Hole, Add 4 Corner Holes, Remove and Clear
\* All, the number shown on each remaining entry's label ("Hole k:") equals
\* that entry's index + 1, so the hole number in get_parameters' "Invalid
\* position for hole k" message names the entry that is labelled "Hole k".
C11_LabelMatchesIndex == LabelIsIndexPlusOne /\ MessageNamesLabel

====
